---- MODULE Spec2Model ----
(***************************************************************************)
(* Model of csbot's dispatch core (src/csbot/core.py): the Bot's plugin    *)
(* lifecycle (load_plugin / unload_plugin / reload_plugin), the command    *)
(* table, and the event queue drained by post_event / fire_hooks.          *)
(***************************************************************************)
EXTENDS Integers, Sequences, FiniteSets, TLC

\* ------------------------------------------------------------------ bounds
\* Total number of events ever posted (top-level and reentrant).
MaxPosts == 3
\* Total number of lifecycle operations (load / unload / reload) attempted.
MaxOps == 3
\* Total number of calls of the auth plugin's get_user_account and
\* userIdentified.
MaxAuthCalls == 4

\* ------------------------------------------------------------ plugin space
\* Plugin types found in the csbot.plugins package, by plugin_name().
Names == {"example", "auth"}
\* A name for which the package holds no plugin type.
Missing == "nosuch"
\* Every name an operator may pass to a lifecycle operation.
OpNames == Names \cup {Missing}
\* A module's source as first written ("v1") and as edited ("v2").
Versions == {"v1", "v2"}

\* Event kinds (Event.event_type).
Kinds == {"privmsg", "command", "userIdentified"}
\* Event kinds for which the Bot itself defines a method.
BotKinds == {"privmsg", "command"}

NoCmd == "-"
NoErr == "ok"
NoHooks == [k \in Kinds |-> 0]

\* The class-level PluginFeatures of a plugin type: its command names and,
\* per hook name, how many handlers are registered (in registration order).
Descriptor(name, ver) ==
    CASE name = "example" /\ ver = "v1" ->
           [commands |-> {"test", "cfg"}, hooks |-> NoHooks]
      [] name = "example" /\ ver = "v2" ->
           [commands |-> {"test", "cfg"},
            hooks |-> [NoHooks EXCEPT !["userIdentified"] = 2, !["privmsg"] = 2]]
      [] name = "auth" /\ ver = "v1" ->
           [commands |-> {"auth.check"},
            hooks |-> [NoHooks EXCEPT !["userIdentified"] = 1]]
      [] name = "auth" /\ ver = "v2" ->
           [commands |-> {"auth.check", "test"},
            hooks |-> [NoHooks EXCEPT !["userIdentified"] = 1, !["privmsg"] = 1]]

\* What CommandEvent.create can yield for a message: no command, or a name.
MsgCommands == {NoCmd, "test"}

\* ------------------------------------------------------------------- state
VARIABLES
    available,       \* plugin name -> version of its module now importable
    plugins,         \* Bot.plugins: name -> instance
    commands,        \* Bot.commands: command name -> bound handler
    nextInst,        \* identity of the next plugin instance constructed
    events,          \* Bot.events: queued event ids, oldest first
    events_running,  \* Bot.events_running
    posted,          \* events posted since the queue last ran empty; an event's id is its index
    processed,       \* ids of the events popped by the drain loop, in order
    pc,              \* "idle": control is with the transport; "drain": in post_event's loop
    cur,             \* id of the event being fired (0 before the first)
    due,             \* handlers fire_hooks is to call for cur, in call order
    nfired,          \* how many handlers of due have been called
    raised,          \* an exception left post_event
    cmdlog,          \* outcome of every fire_command call
    suspended,       \* fire_hooks calls waiting for a drain loop started inside a handler
    nops,            \* lifecycle operations attempted so far
    lastOp,          \* the last lifecycle operation, how it ended, which one it followed
    pre,             \* Bot.plugins and Bot.commands just before lastOp
    account_queries, \* Auth.account_queries of the loaded auth instance: user -> waiters
    deferreds,       \* every Deferred get_user_account made; a Deferred's id is its index
    identify,        \* the users passed to protocol.identify, in call order
    lastAuth,        \* the last call into the auth plugin
    nauth,           \* calls into the auth plugin so far
    alive,           \* a Bot is constructed and has not been torn down
    config,          \* Bot.config: the parser's defaults and sections
    cfgfile,         \* the file at Bot.configpath
    plugindata,      \* Bot.plugindata: the key-value parser's defaults and sections
    kvfile,          \* the file config's keyvalfile names
    lastSet,         \* <<plugin, key>> -> the value of the last Plugin.set that returned
    kvop,            \* the last operation on the stores
    nsets,           \* calls of Plugin.set so far
    cfgres           \* the last Plugin.cfg call and what it gave

vars == <<available, plugins, commands, nextInst, events, events_running,
          posted, processed, pc, cur, due, nfired, raised, cmdlog,
          suspended, nops, lastOp, pre, account_queries, deferreds,
          identify, lastAuth, nauth, alive, config, cfgfile, plugindata,
          kvfile, lastSet, kvop, nsets, cfgres>>

lifecycleVars == <<available, plugins, commands, nextInst, nops, lastOp, pre,
                   account_queries>>
authVars == <<deferreds, identify, lastAuth, nauth>>
storeVars == <<alive, config, cfgfile, plugindata, kvfile, lastSet, kvop,
               nsets, cfgres>>
queueVars == <<events, events_running, posted, processed, pc, cur, due,
               nfired, raised, cmdlog, suspended>>

\* The empty dict.
EmptyDict == [x \in {} |-> 0]

\* d[k] = v on a dict: adds the key or overwrites its value.
DictSet(d, k, v) == [x \in DOMAIN d \cup {k} |-> IF x = k THEN v ELSE d[x]]
\* del d[k] for every k in ks.
DictDel(d, ks) == [x \in DOMAIN d \ ks |-> d[x]]

\* All orderings of a finite set, as sequences without repetition.
Perms(S) ==
    {f \in [1..Cardinality(S) -> S] : \A i, j \in 1..Cardinality(S) : i # j => f[i] # f[j]}

\* Users the bot can be asked about, and what NickServ can say of one: the
\* account the user is identified to, or none.
Users == {"alice", "bob"}
Accounts == {"acct", "None"}

\* Auth.account_queries where no auth instance has run its setup: a marker
\* that is no table of users.
Unset == [x \in {"(no attribute)"} |-> <<>>]
\* No call into the auth plugin yet.
NoAuthCall == [op |-> "none", user |-> "-", account |-> "-"]

\* ------------------------------------------------------------------ stores
\* An option's value is text, held as a sequence of tokens: a token is one of
\* the characters ConfigParser treats specially (" ", "%", "=") or a run of
\* other characters.

\* Bot.DEFAULTS, the options this model follows.
DEFAULTS ==
    [o \in {"nickname", "plugins", "keyvalfile"} |->
        CASE o = "nickname" -> <<"csyorkbot">>
          [] o = "plugins" -> <<"example">>
          [] o = "keyvalfile" -> <<"keyval.cfg">>]

\* ConfigParser.DEFAULTSECT.
DEFAULTSECT == "DEFAULT"

\* SafeConfigParser(defaults): no sections yet.
NewParser(defaults) == [defaults |-> defaults, sections |-> EmptyDict]

\* A file that does not exist, or holds nothing: parser.read skips it.
NoFile == EmptyDict

RECURSIVE LStrip(_)
\* The text without its leading blanks.
LStrip(s) == IF s # <<>> /\ Head(s) = " " THEN LStrip(Tail(s)) ELSE s

RECURSIVE RStrip(_)
\* The text without its trailing blanks.
RStrip(s) ==
    IF s # <<>> /\ s[Len(s)] = " " THEN RStrip(SubSeq(s, 1, Len(s) - 1)) ELSE s

\* str.strip.
Strip(s) == LStrip(RStrip(s))

\* RawConfigParser.write, one option: "key = value".
Line(key, value) == <<key, " ", "=", " ">> \o value

\* RawConfigParser.write, the body of one section.
WriteSection(d) == {Line(k, d[k]) : k \in DOMAIN d}

\* RawConfigParser.write: [DEFAULT] if there are defaults, then every
\* section.  A file is section name -> its lines.
Write(parser) ==
    LET secs == [s \in DOMAIN parser.sections |->
                    WriteSection(parser.sections[s])]
    IN IF DOMAIN parser.defaults = {} THEN secs
       ELSE DictSet(secs, DEFAULTSECT, WriteSection(parser.defaults))

\* Where the option pattern of RawConfigParser._read finds the separator:
\* the first "=" of the line.
Sep(line) ==
    CHOOSE i \in 1..Len(line) : line[i] = "=" /\ \A j \in 1..(i - 1) : line[j] # "="

\* RawConfigParser._read, one option line: the option name is the text before
\* the separator, right-stripped.
OptionOf(line) == RStrip(SubSeq(line, 1, Sep(line) - 1))[1]

\* RawConfigParser._read, one option line: the value is the text after the
\* separator, stripped.
ValueOf(line) == Strip(SubSeq(line, Sep(line) + 1, Len(line)))

\* RawConfigParser._read, the body of one section.
ParseSection(lines) ==
    [o \in {OptionOf(l) : l \in lines} |->
        ValueOf(CHOOSE l \in lines : OptionOf(l) = o)]

\* dict.update.
Update(d, e) ==
    [k \in DOMAIN d \cup DOMAIN e |-> IF k \in DOMAIN e THEN e[k] ELSE d[k]]

\* parser.read(file): [DEFAULT] goes to the defaults, every other section to
\* the sections.
ReadFile(parser, file) ==
    [defaults |-> IF DEFAULTSECT \in DOMAIN file
                  THEN Update(parser.defaults, ParseSection(file[DEFAULTSECT]))
                  ELSE parser.defaults,
     sections |-> [s \in (DOMAIN parser.sections \cup DOMAIN file) \ {DEFAULTSECT} |->
                     Update(IF s \in DOMAIN parser.sections
                            THEN parser.sections[s] ELSE EmptyDict,
                            IF s \in DOMAIN file
                            THEN ParseSection(file[s]) ELSE EmptyDict)]]

RECURSIVE DropEscapes(_)
\* value.replace('%%', '').
DropEscapes(v) ==
    IF Len(v) < 2 THEN v
    ELSE IF v[1] = "%" /\ v[2] = "%" THEN DropEscapes(SubSeq(v, 3, Len(v)))
    ELSE <<v[1]>> \o DropEscapes(Tail(v))

\* The test of SafeConfigParser.set and of the interpolation of get: no "%"
\* is left once the "%%" escapes are taken out.
ValidSyntax(v) == \A i \in 1..Len(DropEscapes(v)) : DropEscapes(v)[i] # "%"

RECURSIVE Interpolate(_)
\* SafeConfigParser._interpolate_some on a value of valid syntax: every "%%"
\* becomes "%".
Interpolate(v) ==
    IF v = <<>> THEN <<>>
    ELSE IF Len(v) >= 2 /\ v[1] = "%" /\ v[2] = "%"
    THEN <<"%">> \o Interpolate(SubSeq(v, 3, Len(v)))
    ELSE <<v[1]>> \o Interpolate(Tail(v))

\* What a call gives: a value, or the exception it raised.
Gave(value) == [err |-> NoErr, value |-> value]
Threw(err) == [err |-> err, value |-> <<>>]

\* parser.has_section.
HasSection(parser, section) == section \in DOMAIN parser.sections

\* parser.has_option: in a section, an option of the defaults counts too.
HasOption(parser, section, option) ==
    IF section = DEFAULTSECT THEN option \in DOMAIN parser.defaults
    ELSE /\ section \in DOMAIN parser.sections
         /\ \/ option \in DOMAIN parser.sections[section]
            \/ option \in DOMAIN parser.defaults

\* parser.get(section, option): the section's value before the default's,
\* interpolated.
ParserGet(parser, section, option) ==
    IF section # DEFAULTSECT /\ section \notin DOMAIN parser.sections
    THEN Threw("NoSectionError")
    ELSE LET own == IF section = DEFAULTSECT THEN EmptyDict
                    ELSE parser.sections[section]
             d == Update(parser.defaults, own)
         IN IF option \notin DOMAIN d THEN Threw("NoOptionError")
            ELSE IF ~ValidSyntax(d[option]) THEN Threw("InterpolationSyntaxError")
            ELSE Gave(Interpolate(d[option]))

\* parser.add_section.
AddSection(parser, section) ==
    [parser EXCEPT !.sections = DictSet(@, section, EmptyDict)]

\* SafeConfigParser.set: refuses a value of invalid syntax, else stores it.
ParserSet(parser, section, option, value) ==
    IF ~ValidSyntax(value) THEN [parser |-> parser, err |-> "ValueError"]
    ELSE IF section = DEFAULTSECT
    THEN [parser |-> [parser EXCEPT !.defaults = DictSet(@, option, value)],
          err |-> NoErr]
    ELSE [parser |-> [parser EXCEPT !.sections[section] = DictSet(@, option, value)],
          err |-> NoErr]

\* A Plugin.cfg that looks at the default section before the plugin's own.
Cfg_DefaultFirst(parser, plugin, name) ==
    IF HasOption(parser, DEFAULTSECT, name)
    THEN ParserGet(parser, DEFAULTSECT, name)
    ELSE IF HasSection(parser, plugin) /\ HasOption(parser, plugin, name)
    THEN ParserGet(parser, plugin, name)
    ELSE Threw("KeyError")

\* Plugin.cfg of a plugin named plugin, on Bot.config.
Cfg(parser, plugin, name) ==
    IF HasSection(parser, plugin) /\ HasOption(parser, plugin, name)
    THEN ParserGet(parser, plugin, name)
    ELSE IF HasOption(parser, DEFAULTSECT, name)
    THEN ParserGet(parser, DEFAULTSECT, name)
    ELSE Threw("KeyError")

\* Plugin.get of a plugin named plugin, on Bot.plugindata.
Get(parser, plugin, key) ==
    IF HasSection(parser, plugin) /\ HasOption(parser, plugin, key)
    THEN ParserGet(parser, plugin, key)
    ELSE Threw("KeyError")

\* Plugin.set of a plugin named plugin, on Bot.plugindata: the section is
\* added before the value is looked at.
Set(parser, plugin, key, value) ==
    ParserSet(IF HasSection(parser, plugin) THEN parser
              ELSE AddSection(parser, plugin),
              plugin, key, value)

\* No lifecycle operation yet.
NoOp == [op |-> "none", name |-> Missing, err |-> NoErr]

\* No operation on the stores yet.
NoStoreOp == [op |-> "none", plugin |-> "-", key |-> "-", err |-> NoErr]
\* No Plugin.cfg call yet.
NoLookup == [plugin |-> "-", name |-> "-", out |-> Threw("none")]

\* Bot.__init__ where neither file exists, but for Bot.config.
InitBot ==
    /\ available = [n \in Names |-> "v1"]
    /\ plugins = EmptyDict
    /\ commands = EmptyDict
    /\ nextInst = 1
    /\ events = <<>>
    /\ events_running = FALSE
    /\ posted = <<>>
    /\ processed = <<>>
    /\ pc = "idle"
    /\ cur = 0
    /\ due = <<>>
    /\ nfired = 0
    /\ raised = FALSE
    /\ cmdlog = <<>>
    /\ suspended = <<>>
    /\ nops = 0
    /\ lastOp = [op |-> "none", name |-> Missing, err |-> NoErr, calls |-> <<>>,
                 steps |-> <<>>,
                 after |-> NoOp]
    /\ pre = [plugins |-> EmptyDict, commands |-> EmptyDict]
    /\ account_queries = Unset
    /\ deferreds = <<>>
    /\ identify = <<>>
    /\ lastAuth = NoAuthCall
    /\ nauth = 0
    /\ alive = TRUE
    /\ kvfile = NoFile
    /\ plugindata = ReadFile(NewParser(EmptyDict), kvfile)
    /\ lastSet = EmptyDict
    /\ kvop = NoStoreOp
    /\ nsets = 0
    /\ cfgres = NoLookup

\* Bot.__init__ with no configuration file either.
Init ==
    /\ InitBot
    /\ cfgfile = NoFile
    /\ config = ReadFile(NewParser(DEFAULTS), cfgfile)

\* --------------------------------------------------------------- lifecycle
\* Bot.discover_plugins: plugin name -> the plugin type now importable.
DiscoverPlugins == available

\* A bound method of instance inst of the plugin named owner
\* (handler.im_class.plugin_name() = owner).
BoundCommand(owner, inst) == [owner |-> owner, inst |-> inst]
BoundHook(owner, inst, idx) == [who |-> owner, inst |-> inst, idx |-> idx]

\* An instantiate that hands out the descriptor's own, unbound functions.
Instantiate_Unbound(name, ver, inst) ==
    LET d == Descriptor(name, ver) IN
    [commands |-> [c \in d.commands |-> BoundCommand(name, 0)],
     hooks |-> [k \in Kinds |->
                  [i \in 1..d.hooks[k] |-> BoundHook(name, 0, i)]]]

\* PluginFeatures.instantiate: the descriptor's commands and hook lists with
\* every handler bound to the new instance.
Instantiate(name, ver, inst) ==
    LET d == Descriptor(name, ver) IN
    [commands |-> [c \in d.commands |-> BoundCommand(name, inst)],
     hooks |-> [k \in Kinds |->
                  [i \in 1..d.hooks[k] |-> BoundHook(name, inst, i)]]]

\* Plugin.__init__: a new instance holding its own bound features.
NewPlugin(name, ver, inst) ==
    [inst |-> inst, ver |-> ver, features |-> Instantiate(name, ver, inst)]

\* load_plugin without its "already loaded" check.
LoadPrecheck_NoLoadedCheck(plugs, disc, name) ==
    IF name \notin DOMAIN disc THEN "does not exist" ELSE NoErr

\* load_plugin's checks before anything is constructed.
LoadPrecheck(plugs, disc, name) ==
    IF name \notin DOMAIN disc THEN "does not exist"
    ELSE IF name \in DOMAIN plugs THEN "already loaded"
    ELSE NoErr

\* A registration loop that replaces an existing entry instead of raising.
RECURSIVE RegisterCommands_Overwrite(_, _, _)
RegisterCommands_Overwrite(table, order, feats) ==
    IF order = <<>> THEN [commands |-> table, err |-> NoErr]
    ELSE RegisterCommands_Overwrite(
             DictSet(table, Head(order), feats[Head(order)]), Tail(order), feats)

\* load_plugin's registration loop over p.features.commands in the dict's
\* iteration order: stops at the first name already in the table.
RECURSIVE RegisterCommands(_, _, _)
RegisterCommands(table, order, feats) ==
    IF order = <<>> THEN [commands |-> table, err |-> NoErr]
    ELSE IF Head(order) \in DOMAIN table
         THEN [commands |-> table, err |-> "command already provided"]
    ELSE RegisterCommands(DictSet(table, Head(order), feats[Head(order)]),
                          Tail(order), feats)

\* The state a lifecycle operation works on and what it has done so far.
OpState(plugs, cmds, inst) ==
    [plugins |-> plugs, commands |-> cmds, nextInst |-> inst,
     err |-> NoErr, calls |-> <<>>, steps |-> <<>>]

\* A call of Plugin.setup or Plugin.teardown on an instance.  The callbacks of
\* the plugins in the package (Plugin.setup, Plugin.teardown, Auth.setup)
\* only assign or pass: they return normally.
Callback(cb, name, inst) == [cb |-> cb, name |-> name, inst |-> inst]

\* Bot.load_plugin from state st with disc discoverable: every state it can
\* end in (one per iteration order of the new instance's command dict).
LoadOutcomes(st, name, disc) ==
    LET chk == LoadPrecheck(st.plugins, disc, name) IN
    IF chk # NoErr THEN {[st EXCEPT !.err = chk]}
    ELSE LET p == NewPlugin(name, disc[name], st.nextInst) IN
         {LET reg == RegisterCommands(st.commands, order, p.features.commands) IN
            [plugins |-> DictSet(st.plugins, name, p),
             commands |-> reg.commands,
             nextInst |-> st.nextInst + 1,
             err |-> reg.err,
             calls |-> IF reg.err = NoErr
                       THEN Append(st.calls, Callback("setup", name, p.inst))
                       ELSE st.calls,
             steps |-> st.steps]
          : order \in Perms(DOMAIN p.features.commands)}

\* A delcmds that forgets to filter on the handler's plugin.
CommandsOf_AnyOwner(cmds, name) == DOMAIN cmds

\* unload_plugin's delcmds: the commands whose handler belongs to name.
CommandsOf(cmds, name) == {c \in DOMAIN cmds : cmds[c].owner = name}

\* What is to be seen of plugin name in state st when a step of
\* unload_plugin has just been taken: is it recorded, which commands it has.
Seen(step, name, st) ==
    [step |-> step, name |-> name,
     loaded |-> name \in DOMAIN st.plugins,
     cmds |-> {c \in DOMAIN st.commands : st.commands[c].owner = name}]

\* An unload_plugin that runs the teardown callback after the removals.
UnloadOutcome_TeardownLast(st, name) ==
    IF name \notin DOMAIN st.plugins THEN [st EXCEPT !.err = "not loaded"]
    ELSE LET p == st.plugins[name]
             delcmds == CommandsOf(st.commands, name)
             s1 == [st EXCEPT !.commands = DictDel(@, delcmds)]
             s2 == [s1 EXCEPT !.steps = Append(@, Seen("unregister", name, s1))]
             s3 == [s2 EXCEPT !.plugins = DictDel(@, {name})]
             s4 == [s3 EXCEPT !.steps = Append(@, Seen("unrecord", name, s3))]
         IN [s4 EXCEPT
               !.calls = Append(@, Callback("teardown", name, p.inst)),
               !.steps = Append(@, Seen("teardown", name, s4))]

\* Bot.unload_plugin from state st: the teardown callback, then the
\* plugin's commands deleted, then its record deleted.
UnloadOutcome(st, name) ==
    IF name \notin DOMAIN st.plugins THEN [st EXCEPT !.err = "not loaded"]
    ELSE LET p == st.plugins[name]
             s1 == [st EXCEPT
                      !.calls = Append(@, Callback("teardown", name, p.inst)),
                      !.steps = Append(@, Seen("teardown", name, st))]
             delcmds == CommandsOf(s1.commands, name)
             s2 == [s1 EXCEPT !.commands = DictDel(@, delcmds)]
             s3 == [s2 EXCEPT !.steps = Append(@, Seen("unregister", name, s2))]
             s4 == [s3 EXCEPT !.plugins = DictDel(@, {name})]
         IN [s4 EXCEPT !.steps = Append(@, Seen("unrecord", name, s4))]

\* A reload_plugin that unloads before it refreshes the module.
ReloadOutcomes_UnloadFirst(st, name, avail, refresh) ==
    IF name \notin DOMAIN st.plugins
    THEN {[st |-> [st EXCEPT !.err = "not loaded"], avail |-> avail]}
    ELSE IF refresh = "fail"
    THEN {[st |-> [UnloadOutcome(st, name) EXCEPT !.err = "reload failed"],
           avail |-> avail]}
    ELSE LET avail2 == [avail EXCEPT ![name] = refresh] IN
         {[st |-> st2, avail |-> avail2] :
            st2 \in LoadOutcomes(UnloadOutcome(st, name), name, avail2)}

\* Bot.reload_plugin from state st with avail importable; refresh is what
\* reload() of the plugin's module does: "fail", or the version now on disk.
\* Every pair of final state and importable versions it can end in.
ReloadOutcomes(st, name, avail, refresh) ==
    IF name \notin DOMAIN st.plugins
    THEN {[st |-> [st EXCEPT !.err = "not loaded"], avail |-> avail]}
    ELSE IF refresh = "fail"
    THEN {[st |-> [st EXCEPT !.err = "reload failed"], avail |-> avail]}
    ELSE LET avail2 == [avail EXCEPT ![name] = refresh] IN
         {[st |-> st2, avail |-> avail2] :
            st2 \in LoadOutcomes(UnloadOutcome(st, name), name, avail2)}

\* Auth.setup: a fresh account_queries dict on the instance whose setup ran.
\* An auth instance recorded without setup has no such attribute, and an
\* unloaded one takes its dict with it.
QueriesAfter(st) ==
    IF "auth" \notin DOMAIN st.plugins THEN Unset
    ELSE IF \E i \in 1..Len(st.calls) :
               st.calls[i] = Callback("setup", "auth", st.plugins["auth"].inst)
         THEN EmptyDict
    ELSE IF "auth" \in DOMAIN plugins
            /\ plugins["auth"].inst = st.plugins["auth"].inst
         THEN account_queries
    ELSE Unset

\* Control returns to the operator: the operation's effects become the
\* Bot's state and the outcome is recorded.
Commit(op, name, st, avail) ==
    /\ plugins' = st.plugins
    /\ commands' = st.commands
    /\ nextInst' = st.nextInst
    /\ available' = avail
    /\ nops' = nops + 1
    /\ lastOp' = [op |-> op, name |-> name, err |-> st.err, calls |-> st.calls,
                  steps |-> st.steps,
                  after |-> [op |-> lastOp.op, name |-> lastOp.name,
                             err |-> lastOp.err]]
    /\ pre' = [plugins |-> plugins, commands |-> commands]
    /\ account_queries' = QueriesAfter(st)
    /\ UNCHANGED queueVars
    /\ UNCHANGED authVars
    /\ UNCHANGED storeVars

LoadPlugin(name) ==
    /\ pc = "idle"
    /\ nops < MaxOps
    /\ \E st \in LoadOutcomes(OpState(plugins, commands, nextInst), name,
                              DiscoverPlugins) :
          Commit("load", name, st, available)

UnloadPlugin(name) ==
    /\ pc = "idle"
    /\ nops < MaxOps
    /\ Commit("unload", name,
              UnloadOutcome(OpState(plugins, commands, nextInst), name),
              available)

ReloadPlugin(name) ==
    /\ pc = "idle"
    /\ nops < MaxOps
    /\ \E refresh \in {"fail"} \cup Versions :
         \E r \in ReloadOutcomes(OpState(plugins, commands, nextInst), name,
                                 available, refresh) :
            Commit("reload", name, r.st, r.avail)

Lifecycle ==
    \E name \in OpNames :
        LoadPlugin(name) \/ UnloadPlugin(name) \/ ReloadPlugin(name)

\* ------------------------------------------------------------- event queue
\* An event: its event_type, the command CommandEvent.create finds in it (for
\* a message) or carries (for a command), and the event being fired when it
\* was posted (0: posted by the transport).
Event(kind, cmd, parent) == [kind |-> kind, cmd |-> cmd, parent |-> parent]

\* deque.appendleft in place of deque.append
Enqueue_Front(q, e) == <<e>> \o q

\* deque.append
Enqueue(q, e) == Append(q, e)
\* deque.popleft: the element taken and the rest
Dequeue(q) == [e |-> Head(q), rest |-> Tail(q)]

\* Bot.privmsg has run for event i.
BotHandled(i) ==
    \E j \in 1..Len(processed) : processed[j] = i /\ (i # cur \/ nfired >= 1)

\* Posts that Bot.privmsg will still make for messages already posted.
Reserved ==
    Cardinality({i \in 1..Len(posted) :
                   /\ posted[i].kind = "privmsg"
                   /\ posted[i].cmd # NoCmd
                   /\ ~BotHandled(i)})

\* Posts an event of this kind leads to: itself, and its command if any.
Need(kind, cmd) == IF kind = "privmsg" /\ cmd # NoCmd THEN 2 ELSE 1

Room(n) == Len(posted) + Reserved + n <= MaxPosts

\* The instance's handlers for the kind, last registered first.
PluginHooks_Reversed(p, kind) ==
    LET hs == p.features.hooks[kind] IN
    [i \in 1..Len(hs) |-> hs[Len(hs) + 1 - i]]

\* PluginFeatures.fire_hooks: the instance's handlers for the kind, in
\* registration order.
PluginHooks(p, kind) == p.features.hooks[kind]

\* Concatenation of every plugin's handlers, plugins taken in the given order.
RECURSIVE HooksInOrder(_, _, _)
HooksInOrder(plugs, order, kind) ==
    IF order = <<>> THEN <<>>
    ELSE PluginHooks(plugs[Head(order)], kind)
           \o HooksInOrder(plugs, Tail(order), kind)

\* Bot.fire_hooks: the Bot's own method for the kind, if it has one, then each
\* plugin's handlers, plugins in the order self.plugins.itervalues() yields.
FireHooks(plugs, order, kind) ==
    (IF kind \in BotKinds THEN <<BoundHook("bot", 0, 0)>> ELSE <<>>)
      \o HooksInOrder(plugs, order, kind)

\* A post_event that does not look at the draining flag.
StartsDrain_Always(running) == TRUE

\* post_event's test after appending: this call becomes the drain loop only
\* if none is running.
StartsDrain(running) == ~running

\* An `if` where post_event has `while`: the loop ends after one event.
DrainDone_AfterOne(q) == TRUE

\* The drain loop's exit test.
DrainDone(q) == Len(q) = 0

\* Bot.post_event called by the transport (through events.proxy).
PostEvent(kind, cmd) ==
    /\ pc = "idle"
    /\ Room(Need(kind, cmd))
    /\ events' = Enqueue(events, Len(posted) + 1)
    /\ posted' = Append(posted, Event(kind, cmd, 0))
    /\ IF StartsDrain(events_running)
       THEN events_running' = TRUE /\ pc' = "drain"
       ELSE UNCHANGED <<events_running, pc>>
    /\ UNCHANGED <<processed, cur, due, nfired, raised, cmdlog, suspended>>
    /\ UNCHANGED lifecycleVars
    /\ UNCHANGED authVars
    /\ UNCHANGED storeVars

\* The drain loop takes the oldest event and enters fire_hooks.
Pop ==
    /\ pc = "drain"
    /\ nfired = Len(due)
    /\ events # <<>>
    /\ \E order \in Perms(DOMAIN plugins) :
         LET d == Dequeue(events) IN
         /\ events' = d.rest
         /\ cur' = d.e
         /\ processed' = Append(processed, d.e)
         /\ due' = FireHooks(plugins, order, posted[d.e].kind)
         /\ nfired' = 0
    /\ UNCHANGED <<events_running, posted, pc, raised, cmdlog, suspended>>
    /\ UNCHANGED lifecycleVars
    /\ UNCHANGED authVars
    /\ UNCHANGED storeVars

\* The handler returned.
Returned ==
    /\ nfired' = nfired + 1
    /\ UNCHANGED <<pc, raised, events_running, suspended, due>>

\* The handler raised: nothing in fire_hooks or post_event catches it, so it
\* leaves the drain loop and post_event, back to the transport.
Raised ==
    /\ nfired' = nfired + 1
    /\ pc' = "idle"
    /\ raised' = TRUE
    /\ UNCHANGED <<events_running, suspended, due>>

\* Bot.post_event called from inside a handler, which then returns.  With
\* events_running set the call only appends; were it clear, the call would
\* run a drain loop of its own while fire_hooks for the current event waits.
PostFromHook(kind, cmd) ==
    /\ events' = Enqueue(events, Len(posted) + 1)
    /\ posted' = Append(posted, Event(kind, cmd, cur))
    /\ IF StartsDrain(events_running)
       THEN /\ events_running' = TRUE
            /\ suspended' = Append(suspended,
                                   [cur |-> cur, due |-> due, nfired |-> nfired])
            /\ due' = <<>>
            /\ nfired' = 0
            /\ UNCHANGED <<pc, raised>>
       ELSE Returned

\* Bot.privmsg: post the command found in the message, if any.
BotPrivmsg ==
    /\ IF posted[cur].cmd # NoCmd
       THEN PostFromHook("command", posted[cur].cmd)
       ELSE Returned /\ UNCHANGED <<events, posted>>
    /\ UNCHANGED cmdlog

\* A fire_command that drops an unknown command without reporting it.
FireCommand_SilentMiss ==
    LET c == posted[cur].cmd IN
    IF c \notin DOMAIN commands
    THEN /\ Returned
         /\ UNCHANGED <<events, posted, cmdlog>>
    ELSE /\ cmdlog' = Append(cmdlog, [ev |-> cur, found |-> TRUE,
                                      handler |-> commands[c]])
         /\ Returned \/ Raised
         /\ UNCHANGED <<events, posted>>

\* Bot.command -> Bot.fire_command.
FireCommand ==
    LET c == posted[cur].cmd IN
    IF c \notin DOMAIN commands
    THEN /\ cmdlog' = Append(cmdlog, [ev |-> cur, found |-> FALSE,
                                      handler |-> BoundCommand("none", 0)])
         /\ Returned
         /\ UNCHANGED <<events, posted>>
    ELSE /\ cmdlog' = Append(cmdlog, [ev |-> cur, found |-> TRUE,
                                      handler |-> commands[c]])
         /\ Returned \/ Raised
         /\ UNCHANGED <<events, posted>>

\* A plugin's hook handler runs: it returns, or posts an event and returns,
\* or raises.
PluginHook ==
    /\ \/ Returned /\ UNCHANGED <<events, posted>>
       \/ Room(1) /\ PostFromHook("userIdentified", NoCmd)
       \/ Raised /\ UNCHANGED <<events, posted>>
    /\ UNCHANGED cmdlog

\* fire_hooks calls the next handler due for the current event.
Fire ==
    /\ pc = "drain"
    /\ nfired < Len(due)
    /\ LET h == due[nfired + 1] IN
         IF h.who = "bot"
         THEN IF posted[cur].kind = "privmsg" THEN BotPrivmsg ELSE FireCommand
         ELSE PluginHook
    /\ UNCHANGED <<processed, cur>>
    /\ UNCHANGED lifecycleVars
    /\ UNCHANGED authVars
    /\ UNCHANGED storeVars

\* The drain loop ends, the flag is cleared and post_event returns: to the
\* transport, where the record of the drain (posted, processed, ...) starts
\* afresh, or into the handler that called it, which then returns.
Finish ==
    /\ pc = "drain"
    /\ nfired = Len(due)
    /\ DrainDone(events)
    /\ events_running' = FALSE
    /\ IF suspended = <<>>
       THEN /\ pc' = "idle"
            /\ posted' = <<>>
            /\ processed' = <<>>
            /\ cur' = 0
            /\ due' = <<>>
            /\ nfired' = 0
            /\ cmdlog' = <<>>
            /\ UNCHANGED suspended
       ELSE LET f == suspended[Len(suspended)] IN
            /\ suspended' = SubSeq(suspended, 1, Len(suspended) - 1)
            /\ cur' = f.cur
            /\ due' = f.due
            /\ nfired' = f.nfired + 1
            /\ UNCHANGED <<pc, posted, processed, cmdlog>>
    /\ UNCHANGED <<events, raised>>
    /\ UNCHANGED lifecycleVars
    /\ UNCHANGED authVars
    /\ UNCHANGED storeVars

Post ==
    \/ \E cmd \in MsgCommands : PostEvent("privmsg", cmd)
    \/ PostEvent("userIdentified", NoCmd)

Next == Lifecycle \/ Post \/ Pop \/ Fire \/ Finish

Spec == Init /\ [][Next]_vars

\* ------------------------------------------------------------- auth plugin
\* A new Deferred for a query about user: not yet called back.
Deferred(user) == [user |-> user, calls |-> 0, value |-> "pending"]

\* Deferred.callback(account)
CallBack(d, account) == [d EXCEPT !.calls = @ + 1, !.value = account]

\* A get_user_account that never finds an outstanding request.
HasOutstanding_Never(q, user) == FALSE

\* get_user_account's test: is a request for user outstanding?
HasOutstanding(q, user) == user \in DOMAIN q

\* A userIdentified that reads the waiter list and leaves it in the table.
PopWaiters_Get(q, user) ==
    [waiters |-> IF user \in DOMAIN q THEN q[user] ELSE <<>>, rest |-> q]

\* account_queries.pop(user, list()): the waiters taken and the table left.
PopWaiters(q, user) ==
    [waiters |-> IF user \in DOMAIN q THEN q[user] ELSE <<>>,
     rest |-> DictDel(q, {user})]

\* The auth instance that is loaded has run its setup.
AuthReady == "auth" \in DOMAIN plugins /\ account_queries # Unset

\* Auth.get_user_account(event, user), as called by the auth.check command
\* handler when fire_command dispatches to it.
GetUserAccount(user) ==
    /\ pc = "idle"
    /\ nauth < MaxAuthCalls
    /\ AuthReady
    /\ "auth.check" \in DOMAIN commands
    /\ commands["auth.check"] = plugins["auth"].features.commands["auth.check"]
    /\ LET d == Len(deferreds) + 1 IN
         /\ deferreds' = Append(deferreds, Deferred(user))
         /\ IF HasOutstanding(account_queries, user)
            THEN /\ account_queries' =
                       DictSet(account_queries, user,
                               Append(account_queries[user], d))
                 /\ UNCHANGED identify
            ELSE /\ account_queries' = DictSet(account_queries, user, <<d>>)
                 /\ identify' = Append(identify, user)
    /\ lastAuth' = [op |-> "get", user |-> user, account |-> "-"]
    /\ nauth' = nauth + 1
    /\ UNCHANGED <<available, plugins, commands, nextInst, nops, lastOp, pre>>
    /\ UNCHANGED queueVars
    /\ UNCHANGED storeVars

\* Auth.userIdentified(event), the instance's hook, as called by fire_hooks
\* for a userIdentified event carrying user and account.
UserIdentified(user, account) ==
    /\ pc = "idle"
    /\ nauth < MaxAuthCalls
    /\ AuthReady
    /\ Len(PluginHooks(plugins["auth"], "userIdentified")) >= 1
    /\ LET t == PopWaiters(account_queries, user) IN
         /\ account_queries' = t.rest
         /\ deferreds' = [d \in 1..Len(deferreds) |->
                            IF \E i \in 1..Len(t.waiters) : t.waiters[i] = d
                            THEN CallBack(deferreds[d], account)
                            ELSE deferreds[d]]
    /\ lastAuth' = [op |-> "identified", user |-> user, account |-> account]
    /\ nauth' = nauth + 1
    /\ UNCHANGED identify
    /\ UNCHANGED <<available, plugins, commands, nextInst, nops, lastOp, pre>>
    /\ UNCHANGED queueVars
    /\ UNCHANGED storeVars

AuthLifecycle ==
    LoadPlugin("auth") \/ UnloadPlugin("auth") \/ ReloadPlugin("auth")

AuthCalls ==
    \/ \E u \in Users : GetUserAccount(u)
    \/ \E u \in Users, a \in Accounts : UserIdentified(u, a)

AuthNext == AuthLifecycle \/ AuthCalls

\* The auth plugin under lifecycle operations, queries and identifications.
AuthSpec == Init /\ [][AuthNext]_vars

\* ---------------------------------------------------------- key-value store
\* Total number of Plugin.set calls.
MaxSets == 2

\* Keys and values plugins store: plain text, text with an inner, a leading
\* or a trailing blank, an escaped percent sign, a bare percent sign.
KvKeys == {"count", "seen"}
KvValues == {<<"a">>, <<"a", " ", "b">>, <<" ", "a">>, <<"a", " ">>,
             <<"%", "%">>, <<"%">>}

\* A plugin of type name calls self.set(key, value).
KvSet(name, key, value) ==
    /\ alive
    /\ pc = "idle"
    /\ nsets < MaxSets
    /\ LET r == Set(plugindata, name, key, value) IN
          /\ plugindata' = r.parser
          /\ lastSet' = IF r.err = NoErr THEN DictSet(lastSet, <<name, key>>, value)
                        ELSE lastSet
          /\ kvop' = [op |-> "set", plugin |-> name, key |-> key, err |-> r.err]
    /\ nsets' = nsets + 1
    /\ UNCHANGED <<alive, config, cfgfile, kvfile, cfgres>>
    /\ UNCHANGED lifecycleVars
    /\ UNCHANGED queueVars
    /\ UNCHANGED authVars

RECURSIVE Join(_)
\* ' '.join(names).
Join(names) ==
    IF names = <<>> THEN <<>>
    ELSE IF Len(names) = 1 THEN names
    ELSE <<Head(names), " ">> \o Join(Tail(names))

RECURSIVE UnloadAll(_, _)
\* Bot.teardown's loop: unload_plugin for every name of order.
UnloadAll(st, order) ==
    IF order = <<>> THEN st
    ELSE UnloadAll(UnloadOutcome(st, Head(order)), Tail(order))

\* Bot.teardown: the loaded plugins' names go to the configuration, every
\* plugin is unloaded, the key-value store and the configuration are
\* written.  order is the iteration order of the Bot.plugins dict.
BotTeardown ==
    /\ alive
    /\ pc = "idle"
    /\ \E order \in Perms(DOMAIN plugins) :
          LET c == ParserSet(config, DEFAULTSECT, "plugins", Join(order)).parser
              st == UnloadAll(OpState(plugins, commands, nextInst), order)
          IN /\ plugins' = st.plugins
             /\ commands' = st.commands
             /\ config' = c
             /\ cfgfile' = Write(c)
    /\ kvfile' = Write(plugindata)
    /\ account_queries' = Unset
    /\ alive' = FALSE
    /\ kvop' = [NoStoreOp EXCEPT !.op = "teardown"]
    /\ UNCHANGED <<available, nextInst, nops, lastOp, pre>>
    /\ UNCHANGED <<plugindata, lastSet, nsets, cfgres>>
    /\ UNCHANGED queueVars
    /\ UNCHANGED authVars

\* Bot.__init__ of the next process, on the files the last one left.
BotStartup ==
    /\ ~alive
    /\ config' = ReadFile(NewParser(DEFAULTS), cfgfile)
    /\ plugindata' = ReadFile(NewParser(EmptyDict), kvfile)
    /\ plugins' = EmptyDict
    /\ commands' = EmptyDict
    /\ events' = <<>>
    /\ events_running' = FALSE
    /\ alive' = TRUE
    /\ kvop' = [NoStoreOp EXCEPT !.op = "startup"]
    /\ UNCHANGED <<available, nextInst, nops, lastOp, pre, account_queries>>
    /\ UNCHANGED <<posted, processed, pc, cur, due, nfired, raised, cmdlog,
                   suspended>>
    /\ UNCHANGED <<cfgfile, kvfile, lastSet, nsets, cfgres>>
    /\ UNCHANGED authVars

KvLoad == alive /\ \E n \in Names : LoadPlugin(n)
KvCalls == \E n \in Names, k \in KvKeys, v \in KvValues : KvSet(n, k, v)
KvNext == KvLoad \/ KvCalls \/ BotTeardown \/ BotStartup
KvSpec == Init /\ [][KvNext]_vars

\* ------------------------------------------------------------ configuration
\* Options plugins look up, and values a configuration file gives them.
CfgKeys == {"nickname", "colour"}
CfgValues == {<<"red">>, <<"50", "%", "%">>}

\* Every function from a subset of D to R.
PartialFns(D, R) == UNION {[S -> R] : S \in SUBSET D}

\* The parsers a written configuration file can come from.
ConfigParsers ==
    [defaults : PartialFns(CfgKeys, CfgValues),
     sections : PartialFns(Names, PartialFns(CfgKeys, CfgValues))]

\* Bot.__init__ on some configuration file.
CfgInit ==
    /\ InitBot
    /\ \E p \in ConfigParsers : cfgfile = Write(p)
    /\ config = ReadFile(NewParser(DEFAULTS), cfgfile)

\* A plugin of type plugin calls self.cfg(name).
CfgLookup(plugin, name) ==
    /\ alive
    /\ cfgres' = [plugin |-> plugin, name |-> name, out |-> Cfg(config, plugin, name)]
    /\ UNCHANGED <<alive, config, cfgfile, plugindata, kvfile, lastSet, kvop, nsets>>
    /\ UNCHANGED lifecycleVars
    /\ UNCHANGED queueVars
    /\ UNCHANGED authVars

CfgNext == \E n \in Names, k \in CfgKeys : CfgLookup(n, k)
CfgSpec == CfgInit /\ [][CfgNext]_vars

\* ------------------------------------------------------------------ claims
\* The last lifecycle operation left Bot.plugins and Bot.commands as it
\* found them.
NothingChanged == plugins = pre.plugins /\ commands = pre.commands

\* The errors load_plugin raises before constructing anything.
PrecheckErrors == {"does not exist", "already loaded"}

\* C1: a load(name) that fails on a command name already in the Command Table
\* leaves the Command Table and the loaded plugins as before the call.
C1_CollisionRolledBack ==
    (lastOp.op = "load" /\ lastOp.err = "command already provided")
        => NothingChanged

\* C2: a successful load(name) followed immediately by unload(name) leaves
\* the Command Table and the loaded plugins equal to their values before the
\* load.
C2_LoadUnloadRestores ==
    [][(/\ lastOp.op = "load" /\ lastOp.err = NoErr
        /\ nops' = nops + 1
        /\ lastOp'.op = "unload" /\ lastOp'.name = lastOp.name
        /\ lastOp'.err = NoErr)
       => (commands' = pre.commands /\ plugins' = pre.plugins)]_vars

\* An unload came right after the successful load of the same plugin, while
\* another plugin's commands were in the table.
C2_Witness ==
    /\ lastOp.op = "unload" /\ lastOp.err = NoErr
    /\ lastOp.after = [op |-> "load", name |-> lastOp.name, err |-> NoErr]
    /\ CommandsOf(pre.commands, lastOp.name) # {}
    /\ commands # EmptyDict

\* C3: events are processed in exactly the order in which they were posted;
\* an event posted by a hook during the drain waits behind every event
\* already queued.
C3_FifoOrder ==
    /\ \A i \in 1..Len(processed) : processed[i] = i
    /\ events = [i \in 1..(Len(posted) - Len(processed)) |-> Len(processed) + i]

\* Two events were posted while one event was being fired, and both have been
\* processed.
C3_Witness ==
    \E i \in 2..Len(processed) :
        /\ posted[i].parent # 0
        /\ posted[i - 1].parent = posted[i].parent

\* C4: when a hook handler raises while an event is being fired, every
\* remaining hook due for that event is still invoked.
C4_SiblingsStillFired == raised => nfired = Len(due)

\* C5: a raising hook handler does not corrupt the queue: once the failing
\* drain has ended the draining flag is clear and every event posted has been
\* processed.
C5_QueueSurvivesRaise ==
    (raised /\ pc = "idle")
        => (~events_running /\ events = <<>> /\ Len(processed) = Len(posted))

C7_MappingKept ==
    [][\A c \in DOMAIN commands :
          LET h == commands[c] IN
          (h.owner \in DOMAIN plugins' /\ plugins'[h.owner].inst = h.inst)
              => (c \in DOMAIN commands' /\ commands'[c] = h)]_vars

\* A load was rejected for a command name that another plugin still holds.
C7_Witness ==
    /\ lastOp.op = "load" /\ lastOp.err = "command already provided"
    /\ \E c \in DOMAIN commands :
          /\ commands[c].owner # lastOp.name
          /\ c \in DOMAIN plugins[lastOp.name].features.commands
          /\ commands[c] = pre.commands[c]

\* C8: a reload(name) of a loaded plugin whose refresh fails raises before
\* any unload step: no teardown callback runs, the instance stays loaded and
\* its commands stay in the Command Table.
C8_FailedRefreshTouchesNothing ==
    (lastOp.op = "reload" /\ lastOp.err = "reload failed") =>
        /\ lastOp.calls = <<>>
        /\ lastOp.name \in DOMAIN plugins
        /\ NothingChanged

\* A refresh failed for a loaded plugin that has commands in the table.
C8_Witness ==
    /\ lastOp.op = "reload" /\ lastOp.err = "reload failed"
    /\ CommandsOf(commands, lastOp.name) # {}

\* C9: a reload(name) that fails at any step, the load step after a
\* successful refresh and unload included, leaves the plugin loaded and its
\* commands registered as before the operation.
C9_FailedReloadRestores ==
    (lastOp.op = "reload" /\ lastOp.err # NoErr) => NothingChanged

\* C10: load(name) on a name already loaded or not discoverable fails with a
\* lifecycle error and changes nothing: no instance is recorded or replaced,
\* the Command Table is unchanged and no setup callback runs.
C10_RejectedLoadChangesNothing ==
    (/\ lastOp.op = "load"
     /\ \/ lastOp.name \in DOMAIN pre.plugins
        \/ lastOp.name \notin DOMAIN DiscoverPlugins)
    => /\ lastOp.err \in PrecheckErrors
       /\ lastOp.calls = <<>>
       /\ NothingChanged

\* A load was refused for a plugin that is loaded and has commands.
C10_Witness ==
    /\ lastOp.op = "load" /\ lastOp.err = "already loaded"
    /\ lastOp.name \in DOMAIN plugins
    /\ CommandsOf(commands, lastOp.name) # {}

\* The fire_command outcomes recorded for event i.
CommandOutcomes(i) == {j \in 1..Len(cmdlog) : cmdlog[j].ev = i}

\* C11: for every CommandEvent processed, if its name is in the Command Table
\* exactly one handler, the one registered under the name, is invoked exactly
\* once with the event; if the name is absent no handler is invoked and the
\* command-not-found error is reported once.
C11_ExactlyOneOutcome ==
    \A i \in 1..Len(posted) :
        (posted[i].kind = "command" /\ BotHandled(i)) =>
            /\ Cardinality(CommandOutcomes(i)) = 1
            /\ pc = "drain" =>
                 \A j \in CommandOutcomes(i) :
                    /\ cmdlog[j].found = (posted[i].cmd \in DOMAIN commands)
                    /\ cmdlog[j].found => cmdlog[j].handler = commands[posted[i].cmd]

\* A command found in the table has been dispatched to its handler.
C11_Witness ==
    /\ pc = "drain"
    /\ \E j \in 1..Len(cmdlog) :
          /\ cmdlog[j].found
          /\ posted[cmdlog[j].ev].kind = "command"
          /\ cmdlog[j].handler = commands[posted[cmdlog[j].ev].cmd]

\* C17: hooks of two different events never interleave: a post made by a hook
\* only enqueues and returns, no fire_hooks call waits on a drain loop started
\* inside one of its handlers, and at most one drain loop is active.
C17_NoInterleaving ==
    /\ suspended = <<>>
    /\ pc = "drain" => events_running

\* An event posted by a hook is being fired, after the event whose hook
\* posted it, and one of its handlers has run.
C17_Witness ==
    /\ pc = "drain" /\ cur # 0
    /\ posted[cur].parent # 0
    /\ \E j \in 1..Len(processed) : processed[j] = posted[cur].parent
    /\ nfired >= 1

\* C19: whenever the draining flag is false the event queue is empty, and the
\* outermost post returns only after every event enqueued before or during
\* its drain has been dequeued and fired exactly once.
C19_IdleQueueEmpty ==
    /\ ~events_running => events = <<>>
    /\ (pc = "drain" /\ DrainDone(events) /\ nfired = Len(due)) =>
          \A i \in 1..Len(posted) :
              Cardinality({j \in 1..Len(processed) : processed[j] = i}) = 1

\* A drain that took in an event posted by a hook is about to return.
C19_Witness ==
    /\ pc = "drain" /\ DrainDone(events) /\ nfired = Len(due)
    /\ Len(processed) >= 2
    /\ \E i \in 1..Len(posted) : posted[i].parent # 0

\* Every handler of an instance's Feature Registry.
Handlers(p) ==
    {p.features.commands[c] : c \in DOMAIN p.features.commands}
      \cup UNION {{p.features.hooks[k][i] : i \in 1..Len(p.features.hooks[k])}
                    : k \in Kinds}

\* The instances recorded now or just before the last lifecycle operation.
KnownInstances ==
    {plugins[n] : n \in DOMAIN plugins}
      \cup {pre.plugins[n] : n \in DOMAIN pre.plugins}

C18_UnloadStepOrder ==
    lastOp.op = "unload" =>
        IF lastOp.name \in DOMAIN pre.plugins
        THEN /\ lastOp.err = NoErr
             /\ lastOp.calls = <<Callback("teardown", lastOp.name,
                                          pre.plugins[lastOp.name].inst)>>
             /\ lastOp.steps =
                  << [step |-> "teardown", name |-> lastOp.name, loaded |-> TRUE,
                      cmds |-> {c \in DOMAIN pre.commands :
                                  pre.commands[c].owner = lastOp.name}],
                     [step |-> "unregister", name |-> lastOp.name,
                      loaded |-> TRUE, cmds |-> {}],
                     [step |-> "unrecord", name |-> lastOp.name,
                      loaded |-> FALSE, cmds |-> {}] >>
             /\ lastOp.name \notin DOMAIN plugins
        ELSE /\ lastOp.err = "not loaded"
             /\ lastOp.calls = <<>>
             /\ lastOp.steps = <<>>
             /\ NothingChanged

\* A plugin with commands in the table has been unloaded.
C18_Witness ==
    /\ lastOp.op = "unload" /\ lastOp.err = NoErr
    /\ Len(lastOp.steps) = 3
    /\ lastOp.steps[1].cmds # {}

\* C20: after any sequence of lifecycle operations every Command Table entry
\* is a handler of a plugin instance now recorded as loaded, and every loaded
\* plugin has all the commands it declares in the table.
C20_TableMatchesLoaded ==
    /\ \A c \in DOMAIN commands :
          /\ commands[c].owner \in DOMAIN plugins
          /\ plugins[commands[c].owner].inst = commands[c].inst
    /\ \A n \in DOMAIN plugins :
          \A c \in DOMAIN plugins[n].features.commands :
              /\ c \in DOMAIN commands
              /\ commands[c] = plugins[n].features.commands[c]

\* The waiters listed for user in table q (none if the user has no entry).
WaitersOf(q, user) ==
    IF user \in DOMAIN q THEN {q[user][i] : i \in 1..Len(q[user])} ELSE {}

\* C12: get_user_account issues an outbound identify request for a user only
\* when that user has no outstanding waiter list; a request made while one is
\* outstanding issues nothing and is appended to the existing list.
C12_IdentifyOncePerOutstanding ==
    [][(nauth' = nauth + 1 /\ lastAuth'.op = "get") =>
         LET u == lastAuth'.user
             d == Len(deferreds')
         IN IF u \in DOMAIN account_queries
            THEN /\ identify' = identify
                 /\ account_queries'[u] = Append(account_queries[u], d)
            ELSE /\ identify' = Append(identify, u)
                 /\ account_queries'[u] = <<d>>]_vars

\* Three requests for one user are waiting on a single identify request.
C12_Witness ==
    /\ AuthReady
    /\ \E u \in Users :
          /\ u \in DOMAIN account_queries
          /\ Len(account_queries[u]) >= 3
          /\ Cardinality({i \in 1..Len(identify) : identify[i] = u}) = 1

\* C13: when a userIdentified event for user u is processed, every waiter
\* pending for u is called back exactly once with the event's account, the
\* waiters of other users are untouched, and u's entry leaves the table, so a
\* second event for u resolves nothing.
C13_ResolveOnceAndClear ==
    [][(nauth' = nauth + 1 /\ lastAuth'.op = "identified") =>
         LET u == lastAuth'.user
             a == lastAuth'.account
         IN /\ \A d \in 1..Len(deferreds) :
                  IF d \in WaitersOf(account_queries, u)
                  THEN /\ deferreds[d].calls = 0
                       /\ deferreds'[d] =
                            [user |-> u, calls |-> 1, value |-> a]
                  ELSE deferreds'[d] = deferreds[d]
            /\ Len(deferreds') = Len(deferreds)
            /\ u \notin DOMAIN account_queries'
            /\ \A v \in Users \ {u} :
                  /\ (v \in DOMAIN account_queries') = (v \in DOMAIN account_queries)
                  /\ v \in DOMAIN account_queries =>
                        account_queries'[v] = account_queries[v]]_vars

\* An identification resolved two waiters of one user while a waiter of the
\* other user stayed pending.
C13_Witness ==
    /\ AuthReady
    /\ lastAuth.op = "identified"
    /\ Cardinality({d \in 1..Len(deferreds) :
                      /\ deferreds[d].user = lastAuth.user
                      /\ deferreds[d].calls = 1
                      /\ deferreds[d].value = lastAuth.account}) >= 2
    /\ \E v \in Users \ {lastAuth.user} :
          /\ v \in DOMAIN account_queries
          /\ \A d \in WaitersOf(account_queries, v) : deferreds[d].calls = 0

\* C14: after set(plugin, key, value), a Bot teardown and a fresh Bot startup
\* on the same key-value file, get(plugin, key) returns the value of the last
\* set, for every plugin namespace and key.
C14_RoundTrip ==
    kvop.op = "startup" =>
       \A pk \in DOMAIN lastSet :
          Get(plugindata, pk[1], pk[2]) = Gave(lastSet[pk])

\* The plugin's own section sets the option / the default section has it.
InOwnSection(plugin, name) ==
    plugin \in DOMAIN config.sections /\ name \in DOMAIN config.sections[plugin]
InDefaults(name) == name \in DOMAIN config.defaults

\* C15: a config lookup for (plugin, key) gives the value of the plugin's own
\* section when the key is set there, otherwise the default section's value
\* when the key is there, and fails with an unknown-option error exactly when
\* the key is in neither; what another plugin's section sets plays no part.
\* The value of an option is its text as the parser gives it ("%%" read as
\* "%").
C15_OwnSectionThenDefault ==
    cfgres # NoLookup =>
       LET p == cfgres.plugin
           n == cfgres.name
       IN /\ InOwnSection(p, n) =>
                cfgres.out = Gave(Interpolate(config.sections[p][n]))
          /\ (~InOwnSection(p, n) /\ InDefaults(n)) =>
                cfgres.out = Gave(Interpolate(config.defaults[n]))
          /\ (cfgres.out.err = "KeyError") <=> (~InOwnSection(p, n) /\ ~InDefaults(n))
          /\ cfgres.out.err \in {NoErr, "KeyError"}

\* The option is set in the plugin's own section, in the default section and
\* in the other plugin's section, the own value differing from both, and the
\* lookup gave the own value.
C15_Witness ==
    /\ cfgres # NoLookup
    /\ InOwnSection(cfgres.plugin, cfgres.name)
    /\ InDefaults(cfgres.name)
    /\ config.sections[cfgres.plugin][cfgres.name] # config.defaults[cfgres.name]
    /\ \E o \in Names \ {cfgres.plugin} :
          /\ InOwnSection(o, cfgres.name)
          /\ config.sections[o][cfgres.name] # config.sections[cfgres.plugin][cfgres.name]
    /\ cfgres.out = Gave(Interpolate(config.sections[cfgres.plugin][cfgres.name]))

\* Event i has been taken from the queue / its place in the order of taking.
Taken(i) == \E k \in 1..Len(processed) : processed[k] = i
TakenAt(i) == CHOOSE k \in 1..Len(processed) : processed[k] = i

\* The command events Bot.privmsg posted for message i.
CommandsFor(i) ==
    {j \in 1..Len(posted) : posted[j].kind = "command" /\ posted[j].parent = i}

\* fire_command has run for command event j, as far as log tells.
Dispatched(log, j) == \E k \in 1..Len(log) : log[k].ev = j

\* The messages of this drain that carry a command and that Bot.privmsg has
\* handled.
CommandMessages ==
    {i \in 1..Len(posted) :
        posted[i].kind = "privmsg" /\ posted[i].cmd # NoCmd /\ BotHandled(i)}

\* The command of a message is queued, not dispatched inline: when
\* fire_command runs for it, fire_hooks has finished with the message and
\* every event posted before the command has been taken before it.
DispatchedInTurn ==
    \A k \in 1..Len(cmdlog) :
       LET j == cmdlog[k].ev
           i == posted[j].parent
       IN /\ posted[j].kind = "command"
          /\ Taken(j)
          /\ i # 0 => (Taken(i) /\ TakenAt(i) < TakenAt(j) /\ cur # i)
          /\ \A e \in 1..(j - 1) : Taken(e) /\ TakenAt(e) < TakenAt(j)

\* C21: the command a message yields is enqueued, not dispatched inline: its
\* handler runs only after every plugin hook for the message and every event
\* queued before it, and it runs before the drain that processed the message
\* exits.
C21_CommandRunsLaterInSameDrain ==
    [][/\ DispatchedInTurn
       /\ (pc = "drain" /\ pc' = "idle") =>
             \A i \in CommandMessages :
                /\ CommandsFor(i) # {}
                /\ \A j \in CommandsFor(i) :
                      Dispatched(IF raised' THEN cmdlog' ELSE cmdlog, j)]_vars

\* The same for the drains that no exception ends.
CommandRunsLaterUnlessRaised ==
    [][/\ DispatchedInTurn
       /\ (pc = "drain" /\ pc' = "idle" /\ ~raised') =>
             \A i \in CommandMessages :
                /\ CommandsFor(i) # {}
                /\ \A j \in CommandsFor(i) : Dispatched(cmdlog, j)]_vars

\* The waiters some list of the loaded auth instance's table holds.
Listed ==
    IF account_queries = Unset THEN {}
    ELSE UNION {WaitersOf(account_queries, u) : u \in DOMAIN account_queries}

\* C22: once a userIdentified event for user u has been processed, every
\* waiter get_user_account made for u before it is resolved, whatever unload,
\* load or reload of the auth plugin came between the request and the event.
C22_WaiterResolvedByIdentify ==
    lastAuth.op = "identified" =>
       \A d \in 1..Len(deferreds) :
          deferreds[d].user = lastAuth.user => deferreds[d].calls >= 1

\* A waiter that no list of the loaded instance holds is never called back.
OrphanStaysPending ==
    [][\A d \in 1..Len(deferreds) :
          (deferreds[d].calls = 0 /\ d \notin Listed) =>
              (deferreds'[d].calls = 0 /\ d \notin Listed')]_vars

====
